---- MODULE Spec2Model ----
(***************************************************************************)
(* n8n execution dashboard: the server's read-only aggregation handlers    *)
(* (server/routes.ts), the dashboard page's local re-aggregation of the    *)
(* fetched records under the UI filter state (dashboard.tsx) and the       *)
(* duration formatters of the table and of the page.                       *)
(*                                                                         *)
(* Conventions.  A nullable value is Nil (null / undefined) or Some(x).    *)
(* Instants are integer ticks, TicksPerDay of them to a calendar day, so   *)
(* that the last tick of a day plays the part of 23:59:59.999.  Numbers    *)
(* that JavaScript computes by division (avgDurationMs, successRate) are   *)
(* exact fractions in lowest terms; floating-point rounding is not         *)
(* modelled.  Server and browser share one time zone, so that a calendar   *)
(* day is the same set of instants for both.                               *)
(*                                                                         *)
(* Six specifications.  Spec is the dashboard page with its filters and the *)
(* data of its three queries; SpecServer the five handlers, each answering *)
(* one direct request; SpecFormat the duration formatters applied to a     *)
(* range of durations.  SpecQueries, SpecInstance and SpecTimer follow the *)
(* page's query cache: fetches settling well or not under one instance,    *)
(* the instance changing while fetches are in flight, and the auto-refresh *)
(* timer with every filter changing.                                       *)
(***************************************************************************)
EXTENDS Integers, Sequences, FiniteSets, TLC

\* ------------------------------------------------------------------ bounds
\* Largest number of rows in the execution-record store.
MaxStore == 3
\* `limit` default of GET /api/executions (100 in the source), scaled so that
\* a store of MaxStore rows can exceed it.
DefaultLimit == 2
\* `days` default of GET /api/executions/daily (14 in the source), scaled.
DefaultDays == 2
\* Resolution of the clock: ticks per calendar day.
TicksPerDay == 2
\* Calendar day on which the model's requests are served.
Today == 3
\* Days after which a month-and-day label comes round again (a calendar
\* year), scaled.
DaysPerYear == 5
\* Largest `days` a direct request to GET /api/executions/daily asks for.
MaxDays == 5
\* Durations handed to the formatters lie within Span of a threshold.
Span == 20

\* ---------------------------------------------------------------- nullable
Nil == <<>>
Some(x) == <<x>>
\* JavaScript truthiness of a `string | null`: null and "" are falsy.
TruthyStr(o) == o # Nil /\ o[1] # ""

\* ------------------------------------------------------------------- types
ExecutionStatus == {"success", "error", "running", "waiting", "canceled"}

\* First and last tick of calendar day d.
DayStart(d) == d * TicksPerDay
DayEnd(d) == d * TicksPerDay + (TicksPerDay - 1)

ExecutionLog(id, wf, st, started, dur, mode, inst, created) ==
  [id |-> id, workflow_name |-> wf, status |-> st, started_at |-> started,
   duration_ms |-> dur, mode |-> mode, n8n_instance |-> inst,
   created_at |-> created]

\* The rows the store is drawn from: every status, null / negative / positive
\* durations, absent modes, undated rows, rows on both edges of a day, rows
\* with and without an instance.  created_at is unique (it orders the rows).
RecordPool ==
  { ExecutionLog(1, "A", "success",  Some(DayStart(1)), Some(4),  Some("manual"),  Some("i1"), DayStart(1)),
    ExecutionLog(2, "B", "error",    Some(DayEnd(1)),   Some(1),  Some("trigger"), Some("i1"), DayEnd(1)),
    ExecutionLog(3, "A", "error",    Some(DayStart(2)), Nil,      Nil,             Nil,        DayStart(2)),
    ExecutionLog(4, "A", "running",  Nil,               Nil,      Some("manual"),  Some("i1"), DayEnd(2)),
    ExecutionLog(5, "B", "waiting",  Some(DayEnd(0)),   Some(-3), Some("trigger"), Nil,        DayEnd(0)),
    ExecutionLog(6, "A", "canceled", Some(DayEnd(2)),   Some(3),  Some("manual"),  Some("i1"), DayStart(3)) }

\* --------------------------------------------------------------- fractions
RECURSIVE GCD(_, _)
GCD(a, b) == IF b = 0 THEN a ELSE GCD(b, a % b)

Abs(n) == IF n < 0 THEN -n ELSE n

\* n / d for d > 0, in lowest terms.
Frac(n, d) ==
  LET g == GCD(Abs(n), d)
  IN  [num |-> n \div g, den |-> d \div g]

\* Math.round(n / d) for d > 0: the nearest integer, halves towards +infinity.
MathRound(n, d) == (2 * n + d) \div (2 * d)

\* ------------------------------------------------------------ array helpers
RECURSIVE Sum(_)
Sum(s) == IF s = <<>> THEN 0 ELSE Head(s) + Sum(Tail(s))

\* executions.filter(e => e.status === st).length
CountStatus(rows, st) == Len(SelectSeq(rows, LAMBDA e : e.status = st))

\* Mutant of Durations: a null duration taken as 0 (`e.duration_ms ?? 0`).
Durations_NullAsZero(rows) ==
  [i \in 1..Len(rows) |->
     IF rows[i].duration_ms = Nil THEN 0 ELSE rows[i].duration_ms[1]]

\* rows.filter(e => e.duration_ms !== null).map(e => e.duration_ms)
Durations(rows) ==
  LET withValues == SelectSeq(rows, LAMBDA e : e.duration_ms # Nil)
  IN  [i \in 1..Len(withValues) |-> withValues[i].duration_ms[1]]

\* A set of rows as an array ordered by created_at; descending when desc.
RECURSIVE OrderByCreated(_, _)
OrderByCreated(rows, desc) ==
  IF rows = {} THEN <<>>
  ELSE LET first == CHOOSE r \in rows : \A q \in rows :
                      IF desc THEN q.created_at <= r.created_at
                              ELSE r.created_at <= q.created_at
       IN  <<first>> \o OrderByCreated(rows \ {first}, desc)

\* array.slice(0, n)
Take(s, n) == SubSeq(s, 1, IF Len(s) < n THEN Len(s) ELSE n)

\* ============================================================== the server
\* `if (instance) query = query.eq("n8n_instance", instance)`
WhereInstance(store, instance) ==
  IF TruthyStr(instance)
    THEN {r \in store : r.n8n_instance = instance}
    ELSE store

\* Array.prototype.sort() on strings: the strings of the model in ascending
\* code-unit order, restricted to the set being sorted.
StringOrder == <<"", "A", "B", "i1", "i2", "manual", "trigger">>

\* Mutant of SortStrings: the strings in descending order.
SortStrings_Descending(S) ==
  LET asc == SelectSeq(StringOrder, LAMBDA x : x \in S)
  IN  [i \in 1..Len(asc) |-> asc[Len(asc) + 1 - i]]

SortStrings(S) == SelectSeq(StringOrder, LAMBDA x : x \in S)

\* GET /api/instances: the distinct non-null instances, sorted.
InstancesHandler(store) ==
  LET data == {r \in store : r.n8n_instance # Nil}
      instanceSet == {r.n8n_instance[1] : r \in {d \in data : TruthyStr(d.n8n_instance)}}
  IN  SortStrings(instanceSet)

\* GET /api/executions: newest first, at most `limit` rows of the instance.
ExecutionsHandler(store, instance, limit) ==
  Take(OrderByCreated(WhereInstance(store, instance), TRUE), limit)

\* avgDurationMs of GET /api/executions/stats: the rounded mean.
ServerAvgDurationMs(executions) ==
  LET durationsWithValues == Durations(executions)
  IN  IF Len(durationsWithValues) > 0
        THEN Frac(MathRound(Sum(durationsWithValues), Len(durationsWithValues)), 1)
        ELSE Frac(0, 1)

\* GET /api/executions/stats.
StatsHandler(store, instance) ==
  LET executions == OrderByCreated(WhereInstance(store, instance), FALSE)
      totalExecutions == Len(executions)
      successCount == CountStatus(executions, "success")
  IN  [totalExecutions |-> totalExecutions,
       successCount |-> successCount,
       errorCount |-> CountStatus(executions, "error"),
       runningCount |-> CountStatus(executions, "running"),
       waitingCount |-> CountStatus(executions, "waiting"),
       canceledCount |-> CountStatus(executions, "canceled"),
       avgDurationMs |-> ServerAvgDurationMs(executions),
       successRate |-> IF totalExecutions > 0
                         THEN Frac(successCount * 100, totalExecutions)
                         ELSE Frac(0, 1)]

\* The instant of the request and the calendar day of an instant.
Now == DayEnd(Today)
DayOf(t) == t \div TicksPerDay

\* A Map<string, counts> in insertion order: the entry of `date` gets one
\* more execution of status st (a new entry goes to the end).
ZeroCounts(date) == [date |-> date, total |-> 0, success |-> 0, error |-> 0]

HasDate(map, date) == \E i \in 1..Len(map) : map[i].date = date

Bump(entry, st) ==
  [entry EXCEPT !.total = @ + 1,
                !.success = IF st = "success" THEN @ + 1 ELSE @,
                !.error = IF st = "error" THEN @ + 1 ELSE @]

MapAdd(map, date, st) ==
  IF HasDate(map, date)
    THEN [i \in 1..Len(map) |->
            IF map[i].date = date THEN Bump(map[i], st) ELSE map[i]]
    ELSE Append(map, Bump(ZeroCounts(date), st))

\* The text of a query value, by what parseInt reads in it: `lead` is the
\* integer its leading digits spell (Nil when it does not start with digits),
\* `rest` tells whether other characters follow.  "3" is QueryText(Some(3),
\* FALSE), "3abc" QueryText(Some(3), TRUE), "abc" QueryText(Nil, TRUE) and ""
\* QueryText(Nil, FALSE).
QueryText(lead, rest) == [lead |-> lead, rest |-> rest]

\* parseInt(raw): the leading integer; NaN (Nil here) for an absent value (the
\* text "undefined") and for a text that does not start with digits.
ParseInt(raw) == IF raw = Nil THEN Nil ELSE raw[1].lead

\* Mutant of ParseIntOr: NaN taken as 0 instead of falling back.
ParseIntOr_NaNAsZero(raw, dflt) ==
  IF ParseInt(raw) = Nil THEN 0
  ELSE IF ParseInt(raw)[1] = 0 THEN dflt ELSE ParseInt(raw)[1]

\* `parseInt(req.query.x as string) || dflt`: NaN and 0 are falsy.
ParseIntOr(raw, dflt) ==
  IF ParseInt(raw) = Nil \/ ParseInt(raw)[1] = 0 THEN dflt ELSE ParseInt(raw)[1]

\* GET /api/executions/daily: "Aggregate data", each fetched row added under
\* the day of its created_at.
RECURSIVE AggregateDaily(_, _)
AggregateDaily(data, dailyMap) ==
  IF data = <<>> THEN dailyMap
  ELSE AggregateDaily(Tail(data),
         MapAdd(dailyMap, DayOf(Head(data).created_at), Head(data).status))

\* The rows the daily query returns: created since `now - days`, oldest first.
DailyQuery(store, instance, days) ==
  LET startDate == Now - days * TicksPerDay
  IN  OrderByCreated(
        {r \in WhereInstance(store, instance) : r.created_at >= startDate},
        FALSE)

\* Mutant of Seeded: the loop stops before today (`i < days`).
Seeded_WithoutToday(days) ==
  [i \in 1..days |-> ZeroCounts(Today - (days - (i - 1)))]

\* "Initialize all dates in range": `for (let i = 0; i <= days; i++)`.
Seeded(days) ==
  [i \in 1..(days + 1) |-> ZeroCounts(Today - (days - (i - 1)))]

\* dailyMap when the handler has aggregated: keys are days.
DailyMap(store, instance, days) ==
  AggregateDaily(DailyQuery(store, instance, days), Seeded(days))

\* toLocaleDateString("en-US", {month: "short", day: "numeric"}): the month
\* and the day of the month, without the year.
ShortDate(day) == [format |-> "MMM d", day |-> day % DaysPerYear]

\* GET /api/executions/daily for the parsed `days`: the entries of dailyMap in
\* insertion order, each key rewritten as a short date.
DailyHandler(store, instance, days) ==
  LET dailyMap == DailyMap(store, instance, days)
  IN  [i \in 1..Len(dailyMap) |->
         [dailyMap[i] EXCEPT !.date = ShortDate(@)]]

\* ---- GET /api/executions/workflows
HasWorkflow(map, name) == \E i \in 1..Len(map) : map[i].workflow_name = name

\* Mutant of WorkflowBump: every execution that did not succeed is failed.
WorkflowBump_FailedIsNotSuccess(existing, execution) ==
  [existing EXCEPT
     !.total_executions = @ + 1,
     !.successful = IF execution.status = "success" THEN @ + 1 ELSE @,
     !.failed = IF execution.status # "success" THEN @ + 1 ELSE @,
     !.durations = IF execution.duration_ms # Nil
                     THEN Append(@, execution.duration_ms[1]) ELSE @]

\* The body of the forEach: one more execution in the entry of its workflow.
WorkflowBump(existing, execution) ==
  [existing EXCEPT
     !.total_executions = @ + 1,
     !.successful = IF execution.status = "success" THEN @ + 1 ELSE @,
     !.failed = IF execution.status = "error" THEN @ + 1 ELSE @,
     !.durations = IF execution.duration_ms # Nil
                     THEN Append(@, execution.duration_ms[1]) ELSE @]

NewWorkflow(name) ==
  [workflow_name |-> name, total_executions |-> 0, successful |-> 0,
   failed |-> 0, durations |-> <<>>]

\* workflowMap after the forEach over `data`, in insertion order.
RECURSIVE AggregateWorkflows(_, _)
AggregateWorkflows(data, workflowMap) ==
  IF data = <<>> THEN workflowMap
  ELSE LET execution == Head(data)
           name == execution.workflow_name
       IN  AggregateWorkflows(Tail(data),
             IF HasWorkflow(workflowMap, name)
               THEN [i \in 1..Len(workflowMap) |->
                       IF workflowMap[i].workflow_name = name
                         THEN WorkflowBump(workflowMap[i], execution)
                         ELSE workflowMap[i]]
               ELSE Append(workflowMap, WorkflowBump(NewWorkflow(name), execution)))

\* GET /api/executions/workflows.  The query has no ORDER BY; the rows are
\* taken oldest first.
WorkflowsHandler(store, instance) ==
  LET data == OrderByCreated(WhereInstance(store, instance), FALSE)
      workflowMap == AggregateWorkflows(data, <<>>)
  IN  [i \in 1..Len(workflowMap) |->
         LET ws == workflowMap[i]
         IN  [workflow_name |-> ws.workflow_name,
              total_executions |-> ws.total_executions,
              successful |-> ws.successful,
              failed |-> ws.failed,
              avg_duration_ms |-> IF Len(ws.durations) > 0
                                    THEN MathRound(Sum(ws.durations), Len(ws.durations))
                                    ELSE 0]]

\* ========================================================== the dashboard
\* date-fns startOfDay / endOfDay / isWithinInterval (closed interval).
startOfDay(t) == DayStart(DayOf(t))
endOfDay(t) == DayEnd(DayOf(t))
isWithinInterval(date, start, end) == start <= date /\ date <= end

\* Mutant of DateRangeFilter: a range without `to` has no upper end.
DateRangeFilter_OpenEnded(item, dateRange) ==
  IF dateRange # Nil /\ dateRange[1].from # Nil /\ item.started_at # Nil
    THEN LET itemDate == item.started_at[1]
             from == startOfDay(dateRange[1].from[1])
         IN  IF dateRange[1].to # Nil
               THEN isWithinInterval(itemDate, from, endOfDay(dateRange[1].to[1]))
               ELSE from <= itemDate
    ELSE TRUE

\* The "Date range filter" block of the three filter callbacks: FALSE when
\* the block returns false for the item, TRUE when it falls through.
DateRangeFilter(item, dateRange) ==
  IF dateRange # Nil /\ dateRange[1].from # Nil /\ item.started_at # Nil
    THEN LET itemDate == item.started_at[1]
             from == startOfDay(dateRange[1].from[1])
             to == IF dateRange[1].to # Nil
                     THEN endOfDay(dateRange[1].to[1])
                     ELSE endOfDay(dateRange[1].from[1])
         IN  isWithinInterval(itemDate, from, to)
    ELSE TRUE

\* Mutant of filteredForCounts: the status filter narrows the counts too.
filteredForCounts_WithStatus(executions, filters) ==
  SelectSeq(executions, LAMBDA item :
    /\ ~(TruthyStr(filters.statusFilter) /\ Some(item.status) # filters.statusFilter)
    /\ ~(TruthyStr(filters.workflowFilter)
           /\ Some(item.workflow_name) # filters.workflowFilter)
    /\ ~(TruthyStr(filters.modeFilter) /\ item.mode # filters.modeFilter)
    /\ DateRangeFilter(item, filters.dateRange))

\* Mutant of filteredForCounts: a row without a mode passes the mode filter
\* (`item.mode && item.mode !== filters.modeFilter`).
filteredForCounts_NullModePasses(executions, filters) ==
  SelectSeq(executions, LAMBDA item :
    /\ ~(TruthyStr(filters.workflowFilter)
           /\ Some(item.workflow_name) # filters.workflowFilter)
    /\ ~(TruthyStr(filters.modeFilter) /\ item.mode # Nil
           /\ item.mode # filters.modeFilter)
    /\ DateRangeFilter(item, filters.dateRange))

\* filteredStats: `executions.filter(...)` for the counts (no statusFilter).
filteredForCounts(executions, filters) ==
  SelectSeq(executions, LAMBDA item :
    /\ ~(TruthyStr(filters.workflowFilter)
           /\ Some(item.workflow_name) # filters.workflowFilter)
    /\ ~(TruthyStr(filters.modeFilter) /\ item.mode # filters.modeFilter)
    /\ DateRangeFilter(item, filters.dateRange))

\* Mutant of filteredForDuration: the status filter is not applied.
filteredForDuration_NoStatus(executions, filters) ==
  filteredForCounts(executions, filters)

\* filteredStats: the rows the average duration is taken over.
filteredForDuration(executions, filters) ==
  IF TruthyStr(filters.statusFilter)
    THEN SelectSeq(filteredForCounts(executions, filters),
                   LAMBDA item : Some(item.status) = filters.statusFilter)
    ELSE filteredForCounts(executions, filters)

\* Mutant of ClientAvgDurationMs: the sum is divided by the number of rows,
\* not by the number of durations.
ClientAvgDurationMs_DivideByRows(rows) ==
  LET durations == Durations(rows)
  IN  IF Len(durations) > 0
        THEN Frac(Sum(durations), Len(rows))
        ELSE Frac(0, 1)

\* filteredStats: avgDurationMs, the unrounded mean of the non-null durations.
ClientAvgDurationMs(rows) ==
  LET durations == Durations(rows)
  IN  IF Len(durations) > 0
        THEN Frac(Sum(durations), Len(durations))
        ELSE Frac(0, 1)

hasCountFilters(filters) ==
  TruthyStr(filters.workflowFilter) \/ TruthyStr(filters.modeFilter)
    \/ filters.dateRange # Nil

hasAnyFilters(filters) ==
  hasCountFilters(filters) \/ TruthyStr(filters.statusFilter)

\* Mutant of RecomputedStats: totalExecutions is the size of the rows left by
\* every filter, the status filter included.
RecomputedStats_TotalOfDuration(executions, filters) ==
  LET forCounts == filteredForCounts(executions, filters)
      successCount == CountStatus(forCounts, "success")
      totalExecutions == Len(filteredForDuration(executions, filters))
  IN  [totalExecutions |-> totalExecutions,
       successCount |-> successCount,
       errorCount |-> CountStatus(forCounts, "error"),
       runningCount |-> CountStatus(forCounts, "running"),
       waitingCount |-> CountStatus(forCounts, "waiting"),
       canceledCount |-> CountStatus(forCounts, "canceled"),
       avgDurationMs |-> ClientAvgDurationMs(filteredForDuration(executions, filters)),
       successRate |-> IF totalExecutions > 0
                         THEN Frac(successCount * 100, totalExecutions)
                         ELSE Frac(0, 1)]

\* Mutant of RecomputedStats: successRate is the fraction, not the percentage.
RecomputedStats_RateAsFraction(executions, filters) ==
  LET forCounts == filteredForCounts(executions, filters)
      successCount == CountStatus(forCounts, "success")
      totalExecutions == Len(forCounts)
  IN  [totalExecutions |-> totalExecutions,
       successCount |-> successCount,
       errorCount |-> CountStatus(forCounts, "error"),
       runningCount |-> CountStatus(forCounts, "running"),
       waitingCount |-> CountStatus(forCounts, "waiting"),
       canceledCount |-> CountStatus(forCounts, "canceled"),
       avgDurationMs |-> ClientAvgDurationMs(filteredForDuration(executions, filters)),
       successRate |-> IF totalExecutions > 0
                         THEN Frac(successCount, totalExecutions)
                         ELSE Frac(0, 1)]

\* The stats object built by filteredStats when it does not return early.
RecomputedStats(executions, filters) ==
  LET forCounts == filteredForCounts(executions, filters)
      successCount == CountStatus(forCounts, "success")
      totalExecutions == Len(forCounts)
  IN  [totalExecutions |-> totalExecutions,
       successCount |-> successCount,
       errorCount |-> CountStatus(forCounts, "error"),
       runningCount |-> CountStatus(forCounts, "running"),
       waitingCount |-> CountStatus(forCounts, "waiting"),
       canceledCount |-> CountStatus(forCounts, "canceled"),
       avgDurationMs |-> ClientAvgDurationMs(filteredForDuration(executions, filters)),
       successRate |-> IF totalExecutions > 0
                         THEN Frac(successCount * 100, totalExecutions)
                         ELSE Frac(0, 1)]

\* Mutant of filteredStats: no early return while nothing is filtered.
filteredStats_NoShortCircuit(executions, stats, filters) ==
  IF executions = Nil
    THEN stats
    ELSE Some(RecomputedStats(executions[1], filters))

\* The useMemo filteredStats: Some(stats object) or Nil (null).  executions
\* and stats are the data of the two queries, Nil while undefined.
filteredStats(executions, stats, filters) ==
  IF ~hasAnyFilters(filters) \/ executions = Nil
    THEN stats
    ELSE Some(RecomputedStats(executions[1], filters))

\* Mutant of filtered: the status filter narrows the chart's rows too.
filtered_WithStatus(executions, filters) ==
  SelectSeq(executions, LAMBDA item :
    /\ ~(TruthyStr(filters.statusFilter) /\ Some(item.status) # filters.statusFilter)
    /\ ~(TruthyStr(filters.workflowFilter)
           /\ Some(item.workflow_name) # filters.workflowFilter)
    /\ ~(TruthyStr(filters.modeFilter) /\ item.mode # filters.modeFilter)
    /\ DateRangeFilter(item, filters.dateRange))

\* filteredDailyStats: its own `executions.filter(...)`.
filtered(executions, filters) ==
  SelectSeq(executions, LAMBDA item :
    /\ ~(TruthyStr(filters.workflowFilter)
           /\ Some(item.workflow_name) # filters.workflowFilter)
    /\ ~(TruthyStr(filters.modeFilter) /\ item.mode # filters.modeFilter)
    /\ DateRangeFilter(item, filters.dateRange))

\* filteredDailyStats: `filtered.forEach(...)` into the Map byDate.
RECURSIVE byDate(_, _)
byDate(rows, map) ==
  IF rows = <<>> THEN map
  ELSE LET e == Head(rows)
       IN  IF e.started_at = Nil
             THEN byDate(Tail(rows), map)
             ELSE byDate(Tail(rows), MapAdd(map, DayOf(e.started_at[1]), e.status))

\* .sort((a, b) => a.date.localeCompare(b.date)) on yyyy-MM-dd keys.
RECURSIVE SortByDate(_)
SortByDate(buckets) ==
  IF buckets = <<>> THEN <<>>
  ELSE LET i == CHOOSE k \in 1..Len(buckets) :
                  /\ \A j \in 1..Len(buckets) : buckets[k].date <= buckets[j].date
                  /\ \A j \in 1..(k - 1) : buckets[j].date # buckets[k].date
           rest == [j \in 1..(Len(buckets) - 1) |->
                      IF j < i THEN buckets[j] ELSE buckets[j + 1]]
       IN  <<buckets[i]>> \o SortByDate(rest)

\* Mutant of filteredDailyStats: a status filter alone makes it recompute.
filteredDailyStats_OnAnyFilter(executions, dailyStats, filters) ==
  IF ~hasAnyFilters(filters) \/ executions = Nil
    THEN IF dailyStats = Nil THEN <<>> ELSE dailyStats[1]
    ELSE LET sorted == SortByDate(byDate(filtered(executions[1], filters), <<>>))
         IN  [i \in 1..Len(sorted) |->
                [sorted[i] EXCEPT !.date = [format |-> "yyyy-MM-dd", day |-> @]]]

\* The useMemo filteredDailyStats.
filteredDailyStats(executions, dailyStats, filters) ==
  IF ~hasCountFilters(filters) \/ executions = Nil
    THEN IF dailyStats = Nil THEN <<>> ELSE dailyStats[1]
    ELSE LET sorted == SortByDate(byDate(filtered(executions[1], filters), <<>>))
         IN  [i \in 1..Len(sorted) |->
                [sorted[i] EXCEPT !.date = [format |-> "yyyy-MM-dd", day |-> @]]]

\* ExecutionTable.filteredData: the rows of the grid.
filteredData(data, filters) ==
  SelectSeq(data, LAMBDA item :
    /\ ~(TruthyStr(filters.statusFilter) /\ Some(item.status) # filters.statusFilter)
    /\ ~(TruthyStr(filters.workflowFilter)
           /\ Some(item.workflow_name) # filters.workflowFilter)
    /\ ~(TruthyStr(filters.modeFilter) /\ item.mode # filters.modeFilter)
    /\ DateRangeFilter(item, filters.dateRange))

\* ------------------------------------------------- duration texts
\* A rendered duration: the number printed and the unit after it; Dash "-".
Text(n, unit) == [n |-> n, unit |-> unit]
Dash == [n |-> 0, unit |-> "-"]

\* Mutant of formatDuration: the quotient is truncated, not rounded.
formatDuration_Truncated(ms) ==
  IF ms = Nil THEN Dash
  ELSE IF ms[1] < 1000 THEN Text(ms[1], "ms")
  ELSE IF ms[1] < 60000 THEN Text(ms[1] \div 1000, "s")
  ELSE Text(ms[1] \div 60000, "m")

\* ExecutionTable formatDuration (the detail sheet): ms is null or a number.
formatDuration(ms) ==
  IF ms = Nil THEN Dash
  ELSE IF ms[1] < 1000 THEN Text(MathRound(ms[1], 1), "ms")
  ELSE IF ms[1] < 60000 THEN Text(MathRound(ms[1], 1000), "s")
  ELSE Text(MathRound(ms[1], 60000), "m")

\* ExecutionTable DurationCellRenderer (the grid's Duration column).
DurationCellRenderer(ms) ==
  IF ms = Nil THEN Dash
  ELSE IF ms[1] < 1000 THEN Text(MathRound(ms[1], 1), "ms")
  ELSE IF ms[1] < 60000 THEN Text(MathRound(ms[1], 1000), "s")
  ELSE Text(MathRound(ms[1], 60000), "m")

\* Dashboard formatDuration (the Avg Duration card): ms is undefined or a
\* number (a fraction here); `!ms` holds for undefined and for 0.
Dashboard_formatDuration(ms) ==
  IF ms = Nil \/ ms[1].num = 0
    THEN Text(0, "ms")
    ELSE Text(MathRound(ms[1].num, ms[1].den), "ms")

\* ================================================================ the state
VARIABLES
  store,       \* the rows of n8n_execution_logs (read-only for this system)
  filters,     \* the ExecutionFilters state of Dashboard
  executions,  \* data of ["/api/executions", instanceFilter]
  stats,       \* data of ["/api/executions/stats", instanceFilter]
  dailyStats,  \* data of ["/api/executions/daily", instanceFilter]
  response,    \* the last response of the server to a direct request
  formatted,   \* the last duration handed to the formatters, with their texts
  queries,     \* the query cache: query key -> data, error, fetch in flight
  mounted,     \* Dashboard is mounted
  refreshInterval,  \* the auto-refresh option of Dashboard
  timers       \* the interval timers set and not cleared, and the next id

\* The query cache, the mount and the refresh timer of the page: followed by
\* SpecQueries and SpecTimer, left alone by the other specifications.
page == <<queries, mounted, refreshInterval, timers>>

vars == <<store, filters, executions, stats, dailyStats, response, formatted, page>>

NoTimers == [nextId |-> 1, active |-> {}]

PageAtRest ==
  /\ queries = <<>>
  /\ mounted = TRUE
  /\ refreshInterval = "manual"
  /\ timers = NoTimers

\* The days the date-range calendar is clicked on.
CalendarDays == {1, 2}

\* A react-day-picker DateRange: {from, to}, each a Date (local midnight of
\* the chosen day) or undefined, to never before from.
DateRanges ==
  {[from |-> Nil, to |-> Nil]}
    \cup {[from |-> Some(DayStart(d)), to |-> Nil] : d \in CalendarDays}
    \cup {[from |-> Some(DayStart(p[1])), to |-> Some(DayStart(p[2]))] :
            p \in {q \in CalendarDays \X CalendarDays : q[1] <= q[2]}}

NoFilters ==
  [instanceFilter |-> Nil, statusFilter |-> Nil, workflowFilter |-> Nil,
   modeFilter |-> Nil, dateRange |-> Nil]

Init ==
  /\ store \in {S \in SUBSET RecordPool : Cardinality(S) <= MaxStore}
  /\ filters = NoFilters
  /\ executions = Nil
  /\ stats = Nil
  /\ dailyStats = Nil
  /\ response = Nil
  /\ formatted = Nil
  /\ PageAtRest

\* The `?instance=` query parameter the three fetches carry.
instanceQueryParam == IF TruthyStr(filters.instanceFilter) THEN filters.instanceFilter ELSE Nil

\* ------------------------------------------------- queries settling
\* Data of the query ["/api/instances"] once it has settled (the store does
\* not change); the environment selector is not rendered before.
instances == InstancesHandler(store)

ExecutionsLoaded ==
  /\ executions = Nil
  /\ executions' = Some(ExecutionsHandler(store, instanceQueryParam, DefaultLimit))
  /\ UNCHANGED <<store, filters, stats, dailyStats, response, formatted, page>>

StatsLoaded ==
  /\ stats = Nil
  /\ stats' = Some(StatsHandler(store, instanceQueryParam))
  /\ UNCHANGED <<store, filters, executions, dailyStats, response, formatted, page>>

DailyLoaded ==
  /\ dailyStats = Nil
  /\ dailyStats' = Some(DailyHandler(store, instanceQueryParam, DefaultDays))
  /\ UNCHANGED <<store, filters, executions, stats, response, formatted, page>>

\* ------------------------------------------------- the dashboard header
\* Mutant of StatusClick: the clicked status is set, selected or not.
StatusClick_NeverClears(f, status) == [f EXCEPT !.statusFilter = Some(status)]

\* The filters handleStatusClick hands to setFilters.
StatusClick(f, status) ==
  IF f.statusFilter = Some(status)
    THEN [f EXCEPT !.statusFilter = Nil]
    ELSE [f EXCEPT !.statusFilter = Some(status)]

\* A click on the Successful / Failed stat card.
handleStatusClick(status) ==
  /\ filters' = StatusClick(filters, status)
  /\ UNCHANGED <<store, executions, stats, dailyStats, response, formatted, page>>

\* The environment selector (rendered when instances is non-empty).  The
\* three queries are keyed by instanceFilter: a new key has no data yet.
SelectInstance(value) ==
  /\ Len(instances) > 0
  /\ value = "all" \/ \E i \in 1..Len(instances) : instances[i] = value
  /\ filters' = [filters EXCEPT
                   !.instanceFilter = IF value = "all" THEN Nil ELSE Some(value)]
  /\ IF filters'.instanceFilter = filters.instanceFilter
       THEN UNCHANGED <<executions, stats, dailyStats>>
       ELSE executions' = Nil /\ stats' = Nil /\ dailyStats' = Nil
  /\ UNCHANGED <<store, response, formatted, page>>

\* ------------------------------------------------- the filter bar
\* ExecutionFiltersBar is rendered by ExecutionTable once its data is there.
uniqueWorkflows == {executions[1][i].workflow_name : i \in 1..Len(executions[1])} \ {""}
uniqueStatuses == {executions[1][i].status : i \in 1..Len(executions[1])} \ {""}
uniqueModes ==
  {executions[1][i].mode[1] :
     i \in {j \in 1..Len(executions[1]) : TruthyStr(executions[1][j].mode)}}

SelectWorkflow(value) ==
  /\ executions # Nil
  /\ value \in {"all"} \cup uniqueWorkflows
  /\ filters' = [filters EXCEPT
                   !.workflowFilter = IF value = "all" THEN Nil ELSE Some(value)]
  /\ UNCHANGED <<store, executions, stats, dailyStats, response, formatted, page>>

SelectStatus(value) ==
  /\ executions # Nil
  /\ value \in {"all"} \cup uniqueStatuses
  /\ filters' = [filters EXCEPT
                   !.statusFilter = IF value = "all" THEN Nil ELSE Some(value)]
  /\ UNCHANGED <<store, executions, stats, dailyStats, response, formatted, page>>

SelectMode(value) ==
  /\ executions # Nil
  /\ value \in {"all"} \cup uniqueModes
  /\ filters' = [filters EXCEPT
                   !.modeFilter = IF value = "all" THEN Nil ELSE Some(value)]
  /\ UNCHANGED <<store, executions, stats, dailyStats, response, formatted, page>>

\* Calendar onSelect: the range is a DateRange or undefined.
SelectDateRange(range) ==
  /\ executions # Nil
  /\ filters' = [filters EXCEPT !.dateRange = range]
  /\ UNCHANGED <<store, executions, stats, dailyStats, response, formatted, page>>

\* "Clear range", shown while dateRange.from is set.
ClearRange ==
  /\ executions # Nil
  /\ filters.dateRange # Nil /\ filters.dateRange[1].from # Nil
  /\ filters' = [filters EXCEPT !.dateRange = Nil]
  /\ UNCHANGED <<store, executions, stats, dailyStats, response, formatted, page>>

hasActiveFilters ==
  \/ TruthyStr(filters.instanceFilter)
  \/ TruthyStr(filters.statusFilter)
  \/ TruthyStr(filters.workflowFilter)
  \/ TruthyStr(filters.modeFilter)
  \/ (filters.dateRange # Nil /\ filters.dateRange[1].from # Nil)

\* "Reset", shown while hasActiveFilters.
resetFilters ==
  /\ executions # Nil
  /\ hasActiveFilters
  /\ filters' = NoFilters
  /\ IF filters'.instanceFilter = filters.instanceFilter
       THEN UNCHANGED <<executions, stats, dailyStats>>
       ELSE executions' = Nil /\ stats' = Nil /\ dailyStats' = Nil
  /\ UNCHANGED <<store, response, formatted, page>>

Next ==
  \/ ExecutionsLoaded
  \/ StatsLoaded
  \/ DailyLoaded
  \/ \E status \in {"success", "error"} : handleStatusClick(status)
  \/ \E value \in {"all", "i1"} : SelectInstance(value)
  \/ \E value \in {"all", "A", "B"} : SelectWorkflow(value)
  \/ \E value \in {"all"} \cup ExecutionStatus : SelectStatus(value)
  \/ \E value \in {"all", "manual", "trigger"} : SelectMode(value)
  \/ \E range \in {Nil} \cup {Some(r) : r \in DateRanges} : SelectDateRange(range)
  \/ ClearRange
  \/ resetFilters

Spec == Init /\ [][Next]_vars

\* ------------------------------------------------- the server on its own
\* Values of the query parameters of a direct request.
InstanceParams == {Nil, Some("i1"), Some("i2")}
QueryTexts(N) ==
  {QueryText(lead, rest) : lead \in {Nil} \cup {Some(n) : n \in N}, rest \in BOOLEAN}
LimitParams == {Nil} \cup {Some(t) : t \in QueryTexts(0..MaxStore)}
DaysParams == {Nil} \cup {Some(t) : t \in QueryTexts(0..MaxDays)}

Query(instance, limit, days) == [instance |-> instance, limit |-> limit, days |-> days]

\* What the storage does during a request: "ok" (the query resolves with
\* data), "error" (it resolves with {error}), "unconfigured" (no client:
\* getSupabase throws an Error), "thrown" (the awaited query rejects with a
\* value that is not an Error).
StorageOutcomes == {"ok", "error", "unconfigured", "thrown"}

NotInitialized ==
  "Supabase client not initialized. Please set SUPABASE_URL and SUPABASE_SERVICE_KEY environment variables."
QueryErrorMessage == "error.message"

FailedToFetch(endpoint) ==
  CASE endpoint = "/api/instances" -> "Failed to fetch instances"
    [] endpoint = "/api/executions" -> "Failed to fetch executions"
    [] endpoint = "/api/executions/stats" -> "Failed to fetch statistics"
    [] endpoint = "/api/executions/daily" -> "Failed to fetch daily statistics"
    [] endpoint = "/api/executions/workflows" -> "Failed to fetch workflow statistics"

Reply(status, body) == [status |-> status, body |-> body]

\* Mutant of Replies: `if (error)` answers 500 without returning, and the
\* handler goes on to answer with the aggregate.
Replies_WithoutReturn(endpoint, storage, body) ==
  CASE storage = "ok" -> <<Reply(200, body)>>
    [] storage = "error" ->
         <<Reply(500, [error |-> QueryErrorMessage]), Reply(200, body)>>
    [] storage = "unconfigured" -> <<Reply(500, [error |-> NotInitialized])>>
    [] storage = "thrown" -> <<Reply(500, [error |-> FailedToFetch(endpoint)])>>

\* The responses a handler sends, in order: the body of its try block and
\* its catch clause.
Replies(endpoint, storage, body) ==
  CASE storage = "ok" -> <<Reply(200, body)>>
    [] storage = "error" -> <<Reply(500, [error |-> QueryErrorMessage])>>
    [] storage = "unconfigured" -> <<Reply(500, [error |-> NotInitialized])>>
    [] storage = "thrown" -> <<Reply(500, [error |-> FailedToFetch(endpoint)])>>

\* The handlers keep nothing between requests: a behaviour follows one
\* request, from the server waiting to its response.
Respond(endpoint, query, storage, body) ==
  /\ response = Nil
  /\ response' = Some([endpoint |-> endpoint, query |-> query, storage |-> storage,
                       replies |-> Replies(endpoint, storage, body)])
  /\ UNCHANGED <<store, filters, executions, stats, dailyStats, formatted, page>>

GetInstances(storage) ==
  Respond("/api/instances", Query(Nil, Nil, Nil), storage, InstancesHandler(store))

GetExecutions(instance, limit, storage) ==
  Respond("/api/executions", Query(instance, limit, Nil), storage,
          ExecutionsHandler(store, instance, ParseIntOr(limit, DefaultLimit)))

GetStats(instance, storage) ==
  Respond("/api/executions/stats", Query(instance, Nil, Nil), storage,
          StatsHandler(store, instance))

GetDaily(instance, days, storage) ==
  Respond("/api/executions/daily", Query(instance, Nil, days), storage,
          DailyHandler(store, instance, ParseIntOr(days, DefaultDays)))

GetWorkflows(instance, storage) ==
  Respond("/api/executions/workflows", Query(instance, Nil, Nil), storage,
          WorkflowsHandler(store, instance))

ServerNext ==
  \/ \E storage \in StorageOutcomes : GetInstances(storage)
  \/ \E instance \in InstanceParams, limit \in LimitParams, storage \in StorageOutcomes :
       GetExecutions(instance, limit, storage)
  \/ \E instance \in InstanceParams, storage \in StorageOutcomes : GetStats(instance, storage)
  \/ \E instance \in InstanceParams, days \in DaysParams, storage \in StorageOutcomes :
       GetDaily(instance, days, storage)
  \/ \E instance \in InstanceParams, storage \in StorageOutcomes :
       GetWorkflows(instance, storage)

\* The rows the store of the server on its own is drawn from: RecordPool and
\* rows of a second instance and of an empty instance text.
ServerPool ==
  RecordPool \cup
  { ExecutionLog(7, "B", "success", Some(DayStart(3)), Some(2), Some("manual"),  Some("i2"), DayEnd(3)),
    ExecutionLog(8, "A", "success", Some(DayStart(0)), Some(1), Some("trigger"), Some(""),   DayStart(0)) }

ServerInit ==
  /\ store \in {S \in SUBSET ServerPool : Cardinality(S) <= MaxStore}
  /\ filters = NoFilters
  /\ executions = Nil
  /\ stats = Nil
  /\ dailyStats = Nil
  /\ response = Nil
  /\ formatted = Nil
  /\ PageAtRest

SpecServer == ServerInit /\ [][ServerNext]_vars

\* ------------------------------------------------- the formatters on their own
\* The durations rendered: null, and the integers around the thresholds, the
\* rounding midpoints and the examples.
Thresholds == {0, 1000, 1500, 59500, 60000, 90000, 125000}
DurationInputs ==
  {Nil} \cup {Some(t + k) : t \in Thresholds, k \in (-Span)..Span}

\* A duration is rendered in the grid, in the detail sheet and (as an
\* average) on the Avg Duration card.
RenderDuration(ms) ==
  /\ formatted' = Some([ms |-> ms,
                        cell |-> DurationCellRenderer(ms),
                        sheet |-> formatDuration(ms),
                        card |-> Dashboard_formatDuration(
                                   IF ms = Nil THEN Nil ELSE Some(Frac(ms[1], 1)))])
  /\ UNCHANGED <<store, filters, executions, stats, dailyStats, response, page>>

FormatNext == \E ms \in DurationInputs : RenderDuration(ms)

\* The formatters do not read the store: it is empty here.
FormatInit ==
  /\ store = {}
  /\ filters = NoFilters
  /\ executions = Nil
  /\ stats = Nil
  /\ dailyStats = Nil
  /\ response = Nil
  /\ formatted = Nil
  /\ PageAtRest

SpecFormat == FormatInit /\ [][FormatNext]_vars

\* ------------------------------------------------- the page and its queries
\* The three queries of Dashboard that are keyed by the instance.
Endpoints == {"/api/executions", "/api/executions/stats", "/api/executions/daily"}

\* Mutant of queryKey: the key does not hold the instance.
queryKey_WithoutInstance(endpoint, f) == <<endpoint, Nil>>

\* Mutant of queryKey: the key also holds the status filter.
queryKey_WithStatus(endpoint, f) == <<endpoint, f.instanceFilter, f.statusFilter>>

\* queryKey: [url, filters.instanceFilter]
queryKey(endpoint, f) == <<endpoint, f.instanceFilter>>

\* instanceQueryParam of a render with filters f.
QueryParam(f) == IF TruthyStr(f.instanceFilter) THEN f.instanceFilter ELSE Nil

\* What the fetch of queryFn resolves with when the response is ok: the
\* handler's answer to a request carrying only the instance.
queryFn(endpoint, param) ==
  CASE endpoint = "/api/executions" -> ExecutionsHandler(store, param, DefaultLimit)
    [] endpoint = "/api/executions/stats" -> StatsHandler(store, param)
    [] endpoint = "/api/executions/daily" -> DailyHandler(store, param, DefaultDays)

\* The Error queryFn throws when the response is not ok.
FetchError(endpoint) ==
  CASE endpoint = "/api/executions" -> "Failed to fetch executions"
    [] endpoint = "/api/executions/stats" -> "Failed to fetch stats"
    [] endpoint = "/api/executions/daily" -> "Failed to fetch daily stats"

\* A query of the cache: its data and error (Nil for undefined / null) and
\* the instance parameter of its fetch in flight (Nil in a Some when the
\* fetch carries none).
NoQuery == [data |-> Nil, error |-> Nil, fetching |-> Nil]
Entry(cache, key) == IF key \in DOMAIN cache THEN cache[key] ELSE NoQuery
Put(cache, key, entry) ==
  [k \in DOMAIN cache \cup {key} |-> IF k = key THEN entry ELSE cache[k]]

\* A fetch of the query starts (a fetch in flight is replaced); the error of
\* a query without data is dropped, the query is loading again.
StartFetch(cache, key, param) ==
  LET q == Entry(cache, key)
  IN  Put(cache, key, [data |-> q.data,
                       error |-> IF q.data = Nil THEN Nil ELSE q.error,
                       fetching |-> Some(param)])

\* useQuery after a render that changed the filters from old to f: a query
\* whose key changed is fetched when it has neither data nor error, is left
\* alone while a fetch is in flight, and is otherwise refetched when stale
\* (staleTime comes from the query client's defaults).
ObserveOne(cache, endpoint, old, f, stale) ==
  LET key == queryKey(endpoint, f)
      q == Entry(cache, key)
  IN  IF key = queryKey(endpoint, old) \/ q.fetching # Nil THEN cache
      ELSE IF (q.data = Nil /\ q.error = Nil) \/ endpoint \in stale
        THEN StartFetch(cache, key, QueryParam(f))
        ELSE cache

Observe(cache, old, f, stale) ==
  LET c1 == ObserveOne(cache, "/api/executions", old, f, stale)
      c2 == ObserveOne(c1, "/api/executions/stats", old, f, stale)
  IN  ObserveOne(c2, "/api/executions/daily", old, f, stale)

\* The queries of the first render: nothing cached, all three fetched.
FirstRender ==
  LET c1 == StartFetch(<<>>, queryKey("/api/executions", NoFilters), Nil)
      c2 == StartFetch(c1, queryKey("/api/executions/stats", NoFilters), Nil)
  IN  StartFetch(c2, queryKey("/api/executions/daily", NoFilters), Nil)

\* invalidateQueries({queryKey: [endpoint, instance]}) during a render with
\* filters f: the query is refetched when it is the one observed.
Invalidate(cache, endpoint, instance, f) ==
  LET key == <<endpoint, instance>>
  IN  IF key \in DOMAIN cache /\ key = queryKey(endpoint, f)
        THEN StartFetch(cache, key, QueryParam(f))
        ELSE cache

\* handleRefresh, created by a render whose instanceFilter was `instance`,
\* called while the filters are f.
handleRefresh(cache, instance, f) ==
  LET c1 == Invalidate(cache, "/api/executions", instance, f)
      c2 == Invalidate(c1, "/api/executions/stats", instance, f)
      c3 == Invalidate(c2, "/api/executions/daily", instance, f)
  IN  StartFetch(c3, queryKey("/api/executions", f), QueryParam(f))

\* The queries the page observes, and the flags it derives.
Current(endpoint) == Entry(queries, queryKey(endpoint, filters))
isLoadingOf(q) == q.data = Nil /\ q.fetching # Nil
isFetching == \E endpoint \in Endpoints : Current(endpoint).fetching # Nil
hasError == \E endpoint \in Endpoints : Current(endpoint).error # Nil

\* ------------------------------------------------- the auto-refresh timer
\* Largest number of setInterval calls followed in a behaviour.
MaxIntervals == 3

REFRESH_INTERVALS(option) ==
  CASE option = "manual" -> Nil
    [] option = "10s" -> Some(10000)
    [] option = "1m" -> Some(60000)
    [] option = "5m" -> Some(300000)

RefreshOptions == {"manual", "10s", "1m", "5m"}

\* Mutant of Cleanup: the interval is not cleared.
Cleanup_KeepsInterval(tm) == tm.active

\* The cleanup of the effect: clearInterval of the id its last run kept.
Cleanup(tm) == {t \in tm.active : t.id # tm.nextId - 1}

\* A run of the auto-refresh effect after its dependencies changed: the
\* cleanup of the run before, then setInterval unless the option has no ms.
AutoRefreshEffect(tm, option, instance) ==
  IF REFRESH_INTERVALS(option) = Nil
    THEN [nextId |-> tm.nextId, active |-> Cleanup(tm)]
    ELSE [nextId |-> tm.nextId + 1,
          active |-> Cleanup(tm) \cup {[id |-> tm.nextId,
                                        ms |-> REFRESH_INTERVALS(option)[1],
                                        instance |-> instance]}]

\* The dependencies of the effect: refreshInterval and handleRefresh, a
\* callback that is the same until instanceFilter changes.
EffectDeps(option, f) == <<option, f.instanceFilter>>

\* The effect after a render, from (option, f) to (option2, f2), within the
\* number of intervals followed.
EffectRuns(option, f, option2, f2) == EffectDeps(option, f) # EffectDeps(option2, f2)
WithinIntervals(option, f, option2, f2) ==
  (EffectRuns(option, f, option2, f2) /\ REFRESH_INTERVALS(option2) # Nil)
    => timers.nextId <= MaxIntervals
TimersAfter(option, f, option2, f2) ==
  IF EffectRuns(option, f, option2, f2)
    THEN AutoRefreshEffect(timers, option2, f2.instanceFilter)
    ELSE timers

\* ------------------------------------------------- the widgets
\* A widget: the spinner while loading, else the error card, else the data.
Render(props) ==
  IF props.isLoading THEN [view |-> "loading"]
  ELSE IF props.error # Nil THEN [view |-> "error", message |-> props.error[1]]
  ELSE [view |-> "data", data |-> props.data]

\* Mutant of ExecutionChart: handed the error of the stats query.
ExecutionChart_StatsError ==
  Render([data |-> filteredDailyStats(Current("/api/executions").data,
                                      Current("/api/executions/daily").data, filters),
          isLoading |-> isLoadingOf(Current("/api/executions/daily")),
          error |-> Current("/api/executions/stats").error])

ExecutionChart ==
  Render([data |-> filteredDailyStats(Current("/api/executions").data,
                                      Current("/api/executions/daily").data, filters),
          isLoading |-> isLoadingOf(Current("/api/executions/daily")),
          error |-> Current("/api/executions/daily").error])

StatusDistributionChart ==
  Render([data |-> filteredStats(Current("/api/executions").data,
                                 Current("/api/executions/stats").data, filters),
          isLoading |-> isLoadingOf(Current("/api/executions/stats")),
          error |-> Current("/api/executions/stats").error])

\* `executions ?? []`
TableData ==
  IF Current("/api/executions").data = Nil THEN <<>>
  ELSE Current("/api/executions").data[1]

ExecutionTable ==
  Render([data |-> filteredData(TableData, filters),
          isLoading |-> isLoadingOf(Current("/api/executions")),
          error |-> Current("/api/executions").error])

\* ------------------------------------------------- the page's actions
\* A fetch in flight settles: with the handler's answer, or with the Error
\* of a response that is not ok.
FetchSettled(key, ok) ==
  /\ key \in DOMAIN queries
  /\ queries[key].fetching # Nil
  /\ queries' =
       Put(queries, key,
           IF ok THEN [data |-> Some(queryFn(key[1], queries[key].fetching[1])),
                       error |-> Nil, fetching |-> Nil]
                 ELSE [data |-> queries[key].data,
                       error |-> Some(FetchError(key[1])), fetching |-> Nil])
  /\ UNCHANGED <<store, filters, executions, stats, dailyStats, response, formatted,
                 mounted, refreshInterval, timers>>

\* Every fetch in flight settles with the handler's answer.
FetchesSucceed ==
  /\ \E key \in DOMAIN queries : queries[key].fetching # Nil
  /\ queries' =
       [key \in DOMAIN queries |->
          IF queries[key].fetching = Nil THEN queries[key]
          ELSE [data |-> Some(queryFn(key[1], queries[key].fetching[1])),
                error |-> Nil, fetching |-> Nil]]
  /\ UNCHANGED <<store, filters, executions, stats, dailyStats, response, formatted,
                 mounted, refreshInterval, timers>>

\* setFilters(next) and the render that follows: the queries observe their
\* keys (those in `stale` have stale data), the auto-refresh effect runs when
\* its dependencies changed.
setFilters(next, stale) ==
  /\ mounted
  /\ WithinIntervals(refreshInterval, filters, refreshInterval, next)
  /\ filters' = next
  /\ queries' = Observe(queries, filters, next, stale)
  /\ timers' = TimersAfter(refreshInterval, filters, refreshInterval, next)
  /\ UNCHANGED <<store, executions, stats, dailyStats, response, formatted,
                 mounted, refreshInterval>>

\* The filters the environment selector can set (it is rendered when
\* instances is non-empty).
InstanceChoices ==
  {[filters EXCEPT !.instanceFilter = IF value = "all" THEN Nil ELSE Some(value)] :
     value \in {v \in {"all", "i1"} :
                  /\ Len(instances) > 0
                  /\ v = "all" \/ \E i \in 1..Len(instances) : instances[i] = v}}

\* The filters the two status cards can set.
CardChoices == {StatusClick(filters, status) : status \in {"success", "error"}}

\* The filters the filter bar can set; the bar is rendered by an
\* ExecutionTable that shows data.
BarChoices ==
  IF ExecutionTable.view # "data" THEN {}
  ELSE
    {[filters EXCEPT !.workflowFilter = IF value = "all" THEN Nil ELSE Some(value)] :
       value \in {"all"} \cup ({TableData[i].workflow_name : i \in 1..Len(TableData)} \cap {"A"})}
    \cup
    {[filters EXCEPT !.statusFilter = IF value = "all" THEN Nil ELSE Some(value)] :
       value \in {"all"} \cup ({TableData[i].status : i \in 1..Len(TableData)} \cap {"success"})}
    \cup
    {[filters EXCEPT !.modeFilter = IF value = "all" THEN Nil ELSE Some(value)] :
       value \in {"all"} \cup ({TableData[i].mode[1] :
                                  i \in {j \in 1..Len(TableData) : TruthyStr(TableData[j].mode)}}
                               \cap {"manual"})}
    \cup
    {[filters EXCEPT !.dateRange = range] :
       range \in {Nil, Some([from |-> Some(DayStart(1)), to |-> Nil])}}
    \cup
    (IF hasActiveFilters THEN {NoFilters} ELSE {})

\* The Refresh button, disabled while a query is fetching.
RefreshClick ==
  /\ mounted
  /\ ~isFetching
  /\ queries' = handleRefresh(queries, filters.instanceFilter, filters)
  /\ UNCHANGED <<store, filters, executions, stats, dailyStats, response, formatted,
                 mounted, refreshInterval, timers>>

\* The auto-refresh menu, disabled while a query is fetching.
setRefreshInterval(value) ==
  /\ mounted
  /\ ~isFetching
  /\ WithinIntervals(refreshInterval, filters, value, filters)
  /\ refreshInterval' = value
  /\ timers' = TimersAfter(refreshInterval, filters, value, filters)
  /\ UNCHANGED <<store, filters, executions, stats, dailyStats, response, formatted,
                 queries, mounted>>

\* An interval timer fires: it calls the handleRefresh it was set with.
IntervalFires(t) ==
  /\ t \in timers.active
  /\ queries' = handleRefresh(queries, t.instance, filters)
  /\ UNCHANGED <<store, filters, executions, stats, dailyStats, response, formatted,
                 mounted, refreshInterval, timers>>

\* Dashboard unmounts: the cleanup of the effect runs.
Unmount ==
  /\ mounted
  /\ mounted' = FALSE
  /\ timers' = [nextId |-> timers.nextId, active |-> Cleanup(timers)]
  /\ UNCHANGED <<store, filters, executions, stats, dailyStats, response, formatted,
                 queries, refreshInterval>>

\* The stores of the page: rows of the instance i1 and a row of none.
PageStores == {{r \in RecordPool : r.id \in ids} : ids \in {{1, 3}, {1, 2, 3}}}

\* Dashboard after its first render: the three queries are fetching.
PageInit ==
  /\ store \in PageStores
  /\ filters = NoFilters
  /\ executions = Nil
  /\ stats = Nil
  /\ dailyStats = Nil
  /\ response = Nil
  /\ formatted = Nil
  /\ queries = FirstRender
  /\ mounted = TRUE
  /\ refreshInterval = "manual"
  /\ timers = NoTimers

\* The queries settling one by one, well or not, under one instance.
QueriesNext ==
  \/ \E key \in DOMAIN queries, ok \in BOOLEAN : FetchSettled(key, ok)
  \/ \E next \in CardChoices \cup BarChoices : setFilters(next, {})
  \/ RefreshClick

SpecQueries == PageInit /\ [][QueriesNext]_vars

\* The instance changing while fetches are in flight; they settle one by
\* one, in any order.
InstanceNext ==
  \/ \E key \in DOMAIN queries : FetchSettled(key, TRUE)
  \/ \E next \in InstanceChoices, stale \in SUBSET Endpoints : setFilters(next, stale)
  \/ RefreshClick

SpecInstance == PageInit /\ [][InstanceNext]_vars

\* The timer, with every filter changing; the fetches in flight settle
\* together.
TimerNext ==
  \/ FetchesSucceed
  \/ \E next \in InstanceChoices \cup BarChoices, stale \in {{}, Endpoints} :
       setFilters(next, stale)
  \/ RefreshClick
  \/ \E value \in RefreshOptions : setRefreshInterval(value)
  \/ \E t \in timers.active : IntervalFires(t)
  \/ Unmount

SpecTimer == PageInit /\ [][TimerNext]_vars

\* What the widgets are handed in the current state.
shownStats == filteredStats(executions, stats, filters)
shownDaily == filteredDailyStats(executions, dailyStats, filters)

\* ================================================================ the claims
\* The counts of a stats object (everything but avgDurationMs), Nil for null.
CountsOf(o) ==
  IF o = Nil THEN Nil
  ELSE Some([totalExecutions |-> o[1].totalExecutions,
             successCount |-> o[1].successCount,
             errorCount |-> o[1].errorCount,
             runningCount |-> o[1].runningCount,
             waitingCount |-> o[1].waitingCount,
             canceledCount |-> o[1].canceledCount])

\* filteredStats takes the recompute branch in this state.
Recomputing == hasAnyFilters(filters) /\ executions # Nil

StatusChoices == {Nil} \cup {Some(st) : st \in ExecutionStatus}

\* C1: with every field of the filter state null, the widgets get the
\* server's stats and the server's daily buckets as they were received (the
\* response of the handlers for the unfiltered store), whatever was fetched
\* for the table.
C1_NoFilterShowsServerData ==
  filters = NoFilters =>
    /\ shownStats = stats
    /\ stats # Nil => shownStats = Some(StatsHandler(store, Nil))
    /\ dailyStats # Nil =>
         /\ shownDaily = dailyStats[1]
         /\ shownDaily = DailyHandler(store, Nil, DefaultDays)

\* C1 witness: nothing filtered, all three queries settled, and the fetched
\* rows are a truncated view of the store.
C1_Witness ==
  /\ filters = NoFilters
  /\ stats # Nil /\ dailyStats # Nil /\ executions # Nil
  /\ Len(executions[1]) < Cardinality(store)
  /\ shownStats[1].totalExecutions = Cardinality(store)

\* C2: while a workflow, mode or date-range filter is active, the counts, the
\* success rate and the daily buckets are the same for every value of
\* statusFilter.
C2_StatusFilterLeavesCounts ==
  hasCountFilters(filters) =>
    LET here == shownStats
        chart == shownDaily
    IN  \A s \in StatusChoices :
          LET other == [filters EXCEPT !.statusFilter = s]
              there == filteredStats(executions, stats, other)
          IN  /\ CountsOf(there) = CountsOf(here)
              /\ there # Nil => there[1].successRate = here[1].successRate
              /\ filteredDailyStats(executions, dailyStats, other) = chart

\* C2 witness: a count filter is active, rows are counted, and another value
\* of statusFilter gives a different average duration.
C2_Witness ==
  /\ hasCountFilters(filters)
  /\ Recomputing
  /\ shownStats[1].totalExecutions >= 2
  /\ \E s \in StatusChoices :
       filteredStats(executions, stats, [filters EXCEPT !.statusFilter = s])[1].avgDurationMs
         # shownStats[1].avgDurationMs

\* C3 (as claimed): with no filter active, non-empty fetched rows and the
\* server's stats on display, a step that changes statusFilter alone leaves
\* totalExecutions and the five per-status counts as they were displayed.
C3_StatusToggleKeepsDisplayedCounts ==
  [][ ( /\ filters = NoFilters
        /\ filters' = [filters EXCEPT !.statusFilter = filters'.statusFilter]
        /\ filters' # filters
        /\ executions # Nil /\ Len(executions[1]) > 0
        /\ stats # Nil )
      => CountsOf(shownStats') = CountsOf(shownStats) ]_vars

\* Sum of the five per-status counts of a stats object.
StatusSum(st) ==
  st.successCount + st.errorCount + st.runningCount + st.waitingCount
    + st.canceledCount

\* C4: in the stats handed to the widgets and in the server's response,
\* totalExecutions is the sum of the five per-status counts.
C4_TotalIsSumOfStatusCounts ==
  /\ LET shown == shownStats
     IN  shown # Nil => shown[1].totalExecutions = StatusSum(shown[1])
  /\ stats # Nil => stats[1].totalExecutions = StatusSum(stats[1])
  /\ \A inst \in {Nil, Some("i1")} :
       LET served == StatsHandler(store, inst)
       IN  served.totalExecutions = StatusSum(served)

\* C4 witness: recomputed stats under a status filter that narrows the
\* duration rows, counting rows of a status other than success and error.
C4_Witness ==
  /\ Recomputing
  /\ TruthyStr(filters.statusFilter)
  /\ shownStats[1].totalExecutions >= 2
  /\ Len(filteredForDuration(executions[1], filters)) < shownStats[1].totalExecutions
  /\ shownStats[1].runningCount + shownStats[1].waitingCount
       + shownStats[1].canceledCount >= 1

\* successRate of a stats object is 0 for no executions and otherwise
\* 100 * successCount / totalExecutions, within [0, 100].
RateOK(st) ==
  /\ st.totalExecutions = 0 => st.successRate.num = 0
  /\ st.totalExecutions > 0 =>
       st.successRate.num * st.totalExecutions
         = 100 * st.successCount * st.successRate.den
  /\ st.successRate.den > 0
  /\ 0 <= st.successRate.num
  /\ st.successRate.num <= 100 * st.successRate.den

\* C5: successRate is 0 when totalExecutions is 0, else 100 * successCount /
\* totalExecutions, and lies in [0, 100]: client recompute and server handler.
C5_SuccessRate ==
  /\ LET shown == shownStats
     IN  shown # Nil => RateOK(shown[1])
  /\ stats # Nil => RateOK(stats[1])
  /\ \A inst \in {Nil, Some("i1")} : RateOK(StatsHandler(store, inst))

\* C5 witness: the filters leave no row to count (rate 0 by the guard) while
\* the server's response has a rate strictly between 0 and 100.
C5_Witness ==
  /\ Recomputing
  /\ Len(executions[1]) > 0
  /\ shownStats[1].totalExecutions = 0
  /\ stats # Nil
  /\ stats[1].successCount > 0
  /\ stats[1].successCount < stats[1].totalExecutions

\* ---- the claims' own reading of the filters, over the indices of the rows
Rows == executions[1]
Range(seq) == {seq[i] : i \in 1..Len(seq)}

WorkflowOK(row) ==
  filters.workflowFilter = Nil \/ filters.workflowFilter[1] = row.workflow_name
ModeOK(row) ==
  filters.modeFilter = Nil \/ (row.mode # Nil /\ row.mode[1] = filters.modeFilter[1])
StatusOK(row) ==
  filters.statusFilter = Nil \/ filters.statusFilter[1] = row.status

\* Indices of the count-eligible and of the duration-eligible rows.
CountEligible ==
  {i \in 1..Len(Rows) :
     WorkflowOK(Rows[i]) /\ ModeOK(Rows[i])
       /\ DateRangeFilter(Rows[i], filters.dateRange)}
DurationEligible ==
  {i \in CountEligible : StatusOK(Rows[i]) /\ Rows[i].duration_ms # Nil}

RECURSIVE SumDurations(_, _)
SumDurations(rows, I) ==
  IF I = {} THEN 0
  ELSE LET i == CHOOSE k \in I : TRUE
       IN  rows[i].duration_ms[1] + SumDurations(rows, I \ {i})

\* C6: when filteredStats recomputes, avgDurationMs is the mean of duration_ms
\* over the fetched rows that pass the workflow, mode, date-range and status
\* filters and have a duration, and 0 when there is none.
C6_AvgIsMeanOfEligibleDurations ==
  Recomputing =>
    LET avg == shownStats[1].avgDurationMs
        n == Cardinality(DurationEligible)
    IN  /\ avg.den > 0
        /\ n = 0 => avg.num = 0
        /\ n > 0 => avg.num * n = SumDurations(Rows, DurationEligible) * avg.den

\* C6 witness: the status filter leaves out a count-eligible row that has a
\* duration, and the average of the rows it keeps is not 0.
C6_Witness ==
  /\ Recomputing
  /\ TruthyStr(filters.statusFilter)
  /\ Cardinality(DurationEligible) >= 1
  /\ Cardinality(DurationEligible) < Cardinality(CountEligible)
  /\ \E i \in CountEligible : Rows[i].duration_ms # Nil /\ ~StatusOK(Rows[i])
  /\ shownStats[1].avgDurationMs.num # 0

\* The rows with a duration.
WithDuration(rows) == SelectSeq(rows, LAMBDA e : e.duration_ms # Nil)

\* C7: rows with a null duration change neither the sum nor the divisor of
\* avgDurationMs (the average is that of the other rows alone), and each is
\* counted in totalExecutions and in the count of its status: client and
\* server.
C7_NullDurationCountedNotAveraged ==
  /\ Recomputing =>
       LET all == RecomputedStats(Rows, filters)
           rest == RecomputedStats(WithDuration(Rows), filters)
           nulls == {i \in CountEligible : Rows[i].duration_ms = Nil}
       IN  /\ shownStats = Some(all)
           /\ all.avgDurationMs = rest.avgDurationMs
           /\ all.totalExecutions = rest.totalExecutions + Cardinality(nulls)
           /\ all.successCount = rest.successCount
                + Cardinality({i \in nulls : Rows[i].status = "success"})
           /\ all.errorCount = rest.errorCount
                + Cardinality({i \in nulls : Rows[i].status = "error"})
           /\ all.runningCount = rest.runningCount
                + Cardinality({i \in nulls : Rows[i].status = "running"})
           /\ all.waitingCount = rest.waitingCount
                + Cardinality({i \in nulls : Rows[i].status = "waiting"})
           /\ all.canceledCount = rest.canceledCount
                + Cardinality({i \in nulls : Rows[i].status = "canceled"})
  /\ \A inst \in {Nil, Some("i1")} :
       LET all == StatsHandler(store, inst)
           nulls == {r \in WhereInstance(store, inst) : r.duration_ms = Nil}
           rest == StatsHandler(store \ nulls, inst)
       IN  /\ all.avgDurationMs = rest.avgDurationMs
           /\ all.totalExecutions = rest.totalExecutions + Cardinality(nulls)
           /\ all.errorCount = rest.errorCount
                + Cardinality({r \in nulls : r.status = "error"})
           /\ all.runningCount = rest.runningCount
                + Cardinality({r \in nulls : r.status = "running"})

\* C7 witness: recomputed stats whose duration rows hold a row with a null
\* duration next to a row with a non-zero duration.
C7_Witness ==
  /\ Recomputing
  /\ \E i \in CountEligible : StatusOK(Rows[i]) /\ Rows[i].duration_ms = Nil
  /\ DurationEligible # {}
  /\ shownStats[1].avgDurationMs.num # 0
  /\ shownStats[1].totalExecutions > Cardinality(DurationEligible)

\* C8 (as claimed): avgDurationMs is never negative, in the stats handed to
\* the widgets and in the server's response.
C8_AvgNeverNegative ==
  /\ shownStats # Nil => shownStats[1].avgDurationMs.num >= 0
  /\ stats # Nil => stats[1].avgDurationMs.num >= 0

\* lo <= avg <= hi for the durations ds (0 when ds is empty).
AvgWithin(avg, ds) ==
  /\ avg.den > 0
  /\ ds = {} => avg.num = 0
  /\ ds # {} =>
       /\ \E d \in ds : d * avg.den <= avg.num
       /\ \E d \in ds : avg.num <= d * avg.den

\* C8 (amended): avgDurationMs is 0 without contributing durations and
\* otherwise lies between the least and the greatest contributing duration,
\* so it is non-negative whenever no contributing duration is negative and
\* may be negative when one is: client recompute and server handler.
C8_AvgWithinContributingDurations ==
  /\ Recomputing =>
       LET ds == {Rows[i].duration_ms[1] : i \in DurationEligible}
       IN  /\ AvgWithin(shownStats[1].avgDurationMs, ds)
           /\ (\A d \in ds : d >= 0) => shownStats[1].avgDurationMs.num >= 0
  /\ stats # Nil =>
       LET ds == {r.duration_ms[1] :
                    r \in {q \in WhereInstance(store, instanceQueryParam) :
                             q.duration_ms # Nil}}
       IN  /\ AvgWithin(stats[1].avgDurationMs, ds)
           /\ (\A d \in ds : d >= 0) => stats[1].avgDurationMs.num >= 0

\* C8 witness: a recomputed average over a negative and a positive duration
\* that is itself negative.
C8_Witness ==
  /\ Recomputing
  /\ \E i, j \in DurationEligible :
       Rows[i].duration_ms[1] < 0 /\ Rows[j].duration_ms[1] > 0
  /\ shownStats[1].avgDurationMs.num < 0

\* C9: a fetched row is count-eligible iff it passes the workflow filter
\* (null, or equal to its workflow_name), the mode filter (null, or equal to
\* its mode; a row without a mode fails a set mode filter) and the date-range
\* test; instanceFilter and statusFilter do not enter.
C9_CountEligibleSubset ==
  executions # Nil =>
    LET counted == filteredForCounts(Rows, filters)
        eligible == CountEligible
    IN  /\ \A i \in 1..Len(Rows) : Rows[i] \in Range(counted) <=> i \in eligible
        /\ Len(counted) = Cardinality(eligible)
        /\ \A s \in StatusChoices : \A inst \in {Nil, Some("i1"), Some("i2")} :
             filteredForCounts(Rows, [filters EXCEPT !.statusFilter = s,
                                                     !.instanceFilter = inst])
               = counted

\* C9 witness: a mode filter and a workflow filter are set, a row without a
\* mode is left out, and a row of the chosen workflow and mode is counted.
C9_Witness ==
  /\ executions # Nil
  /\ filters.modeFilter # Nil /\ filters.workflowFilter # Nil
  /\ filters.statusFilter # Nil
  /\ CountEligible # {}
  /\ \E i \in 1..Len(Rows) :
       Rows[i].mode = Nil /\ WorkflowOK(Rows[i]) /\ i \notin CountEligible

\* The instant t lies between the first tick of the day of `from` and the
\* last tick of the day of `to` (of `from` when `to` is absent).
InDays(t, range) ==
  LET fromDay == range.from[1] \div TicksPerDay
      toDay == IF range.to = Nil THEN fromDay ELSE range.to[1] \div TicksPerDay
  IN  fromDay * TicksPerDay <= t /\ t <= toDay * TicksPerDay + TicksPerDay - 1

\* C10: under a date range with `from` set, a dated row passes the date test
\* of the stats and of the table iff started_at lies in
\* [start-of-day(from), end-of-day(to)], `to` standing for `from` when absent.
C10_DateRangeIsWholeDays ==
  (executions # Nil /\ filters.dateRange # Nil /\ filters.dateRange[1].from # Nil) =>
    LET range == filters.dateRange[1]
        onlyDate == [NoFilters EXCEPT !.dateRange = filters.dateRange]
    IN  \A i \in {k \in 1..Len(Rows) : Rows[k].started_at # Nil} :
          LET in == InDays(Rows[i].started_at[1], range)
          IN  /\ Rows[i] \in Range(filteredForCounts(Rows, onlyDate)) <=> in
              /\ Rows[i] \in Range(filteredData(Rows, onlyDate)) <=> in
              /\ Rows[i] \in Range(filteredForCounts(Rows, filters)) => in
              /\ Rows[i] \in Range(filteredData(Rows, filters)) => in

\* C10 witness: a range of `from` alone; a row of the last tick of that day
\* is counted and a row of the first tick of the next day is not.
C10_Witness ==
  /\ executions # Nil
  /\ filters.dateRange # Nil /\ filters.dateRange[1].from # Nil
  /\ filters.dateRange[1].to = Nil
  /\ \E i, j \in 1..Len(Rows) :
       /\ Rows[i].started_at = Some(endOfDay(filters.dateRange[1].from[1]))
       /\ i \in CountEligible
       /\ Rows[j].started_at = Some(endOfDay(filters.dateRange[1].from[1]) + 1)
       /\ j \notin CountEligible

\* C11 (as claimed): while a date range with `from` is set, a fetched row
\* without started_at is in none of the date-filtered results: not among the
\* rows counted, not among the rows averaged, not among the rows of the table.
C11_UndatedRowExcludedByDateRange ==
  (executions # Nil /\ filters.dateRange # Nil /\ filters.dateRange[1].from # Nil) =>
    \A i \in 1..Len(Rows) :
      Rows[i].started_at = Nil =>
        /\ Rows[i] \notin Range(filteredForCounts(Rows, filters))
        /\ Rows[i] \notin Range(filteredForDuration(Rows, filters))
        /\ Rows[i] \notin Range(filteredData(Rows, filters))

\* The server's series as the chart gets it without recomputation.
ServerDaily == IF dailyStats = Nil THEN <<>> ELSE dailyStats[1]

\* C12: with workflowFilter and modeFilter null and no dateRange, the chart
\* gets the server's daily series (the response of the daily handler once it
\* has arrived) for every value of statusFilter, whatever rows were fetched.
C12_StatusAloneKeepsServerDaily ==
  (filters.workflowFilter = Nil /\ filters.modeFilter = Nil /\ filters.dateRange = Nil) =>
    \A s \in StatusChoices :
      LET chart == filteredDailyStats(executions, dailyStats,
                                      [filters EXCEPT !.statusFilter = s])
      IN  /\ chart = ServerDaily
          /\ dailyStats # Nil =>
               chart = DailyHandler(store, instanceQueryParam, DefaultDays)

\* C12 witness: only statusFilter is set, rows and the server's series are
\* there, the stat cards are recomputed from the rows, and a recomputation
\* of the series from the rows would not give the server's series.
C12_Witness ==
  /\ filters.statusFilter # Nil
  /\ filters.workflowFilter = Nil /\ filters.modeFilter = Nil /\ filters.dateRange = Nil
  /\ executions # Nil /\ Len(Rows) > 0
  /\ dailyStats # Nil /\ stats # Nil
  /\ shownStats # stats
  /\ shownDaily = dailyStats[1]
  /\ Len(byDate(filtered(Rows, filters), <<>>)) # Len(shownDaily)

\* Sums over the buckets of a daily series.
SumTotal(buckets) == Sum([i \in 1..Len(buckets) |-> buckets[i].total])
SumSuccess(buckets) == Sum([i \in 1..Len(buckets) |-> buckets[i].success])
SumError(buckets) == Sum([i \in 1..Len(buckets) |-> buckets[i].error])

\* C13 (as claimed): while a workflow, mode or date-range filter is active,
\* the recomputed buckets add up to the stat counts: total to
\* totalExecutions, success to successCount, error to errorCount.
C13_BucketSumsEqualCounts ==
  (hasCountFilters(filters) /\ executions # Nil) =>
    /\ SumTotal(shownDaily) = shownStats[1].totalExecutions
    /\ SumSuccess(shownDaily) = shownStats[1].successCount
    /\ SumError(shownDaily) = shownStats[1].errorCount

\* Indices of the count-eligible rows that have a started_at.
DatedEligible == {i \in CountEligible : Rows[i].started_at # Nil}
UndatedEligible == CountEligible \ DatedEligible

\* C13 (amended): while a workflow, mode or date-range filter is active, the
\* recomputed buckets are derived from the count-eligible rows that have a
\* started_at: total, success and error add up to the number of such rows,
\* of such rows with status success and with status error, which is the stat
\* count less the count-eligible rows without started_at.
C13_BucketSumsAreDatedCounts ==
  (hasCountFilters(filters) /\ executions # Nil) =>
    /\ SumTotal(shownDaily) = Cardinality(DatedEligible)
    /\ SumSuccess(shownDaily)
         = Cardinality({i \in DatedEligible : Rows[i].status = "success"})
    /\ SumError(shownDaily)
         = Cardinality({i \in DatedEligible : Rows[i].status = "error"})
    /\ SumTotal(shownDaily)
         = shownStats[1].totalExecutions - Cardinality(UndatedEligible)
    /\ SumSuccess(shownDaily) = shownStats[1].successCount
         - Cardinality({i \in UndatedEligible : Rows[i].status = "success"})
    /\ SumError(shownDaily) = shownStats[1].errorCount
         - Cardinality({i \in UndatedEligible : Rows[i].status = "error"})

\* C13 witness: a workflow filter and a status filter are set, the counted
\* rows hold a row without started_at next to a dated error row of another
\* status than the one selected, and the buckets add up to less than
\* totalExecutions.
C13_Witness ==
  /\ executions # Nil
  /\ filters.workflowFilter # Nil /\ filters.statusFilter # Nil
  /\ UndatedEligible # {}
  /\ \E i \in DatedEligible : Rows[i].status = "error" /\ ~StatusOK(Rows[i])
  /\ SumTotal(shownDaily) < shownStats[1].totalExecutions
  /\ SumError(shownDaily) = 1

\* ---- responses to direct requests
IsResponseOf(endpoint) ==
  /\ response # Nil
  /\ response[1].endpoint = endpoint
  /\ response[1].storage = "ok"
Body == response[1].replies[1].body
\* The instance and the parsed `days` of the request answered.
AskedInstance == response[1].query.instance
AskedDays == ParseIntOr(response[1].query.days, DefaultDays)

\* The client half of C14: a recomputed series is strictly ascending by its
\* yyyy-MM-dd date.
ClientSeriesAscending ==
  (hasCountFilters(filters) /\ executions # Nil) =>
    \A i, j \in 1..Len(shownDaily) :
      i < j => shownDaily[i].date.day < shownDaily[j].date.day

\* C14 (as claimed), the server's series: for every `days` and every store
\* the buckets of the response are in ascending order of the days they stand
\* for, and no two of them have the same value in the date field.
C14_DailySeriesAscendingNoDuplicates ==
  IsResponseOf("/api/executions/daily") =>
    LET dailyMap == DailyMap(store, AskedInstance, AskedDays)
    IN  /\ Len(Body) = Len(dailyMap)
        /\ \A i, j \in 1..Len(dailyMap) : i < j => dailyMap[i].date < dailyMap[j].date
        /\ \A i, j \in 1..Len(Body) : i < j => Body[i].date # Body[j].date

\* The rows of the asked instance created within the window on `day`.
CreatedOn(day) ==
  {r \in WhereInstance(store, AskedInstance) :
     r.created_at >= Now - AskedDays * TicksPerDay /\ DayOf(r.created_at) = day}

\* C15: the response for a window of d days has, in order, one bucket for
\* each day from today - d to today, holding the rows of the window created
\* on that day and so zeroes for a day without any; it has d + 1 buckets when
\* no row is dated after today.
C15_EveryWindowDayHasBucket ==
  IsResponseOf("/api/executions/daily") =>
    LET d == AskedDays
    IN  /\ Len(Body) >= d + 1
        /\ \A k \in 0..d :
             LET day == Today - d + k
                 b == Body[k + 1]
             IN  /\ b.date = ShortDate(day)
                 /\ b.total = Cardinality(CreatedOn(day))
                 /\ CreatedOn(day) = {} => b.total = 0 /\ b.success = 0 /\ b.error = 0
        /\ (\A r \in WhereInstance(store, AskedInstance) : DayOf(r.created_at) <= Today)
             => Len(Body) = d + 1

\* C15 witness: a request for the last three days and more whose response
\* has a day without rows between days with rows.
C15_Witness ==
  /\ IsResponseOf("/api/executions/daily")
  /\ response[1].query.days # Nil /\ AskedDays >= 3
  /\ Len(Body) = AskedDays + 1
  /\ \E i, j, k \in 1..Len(Body) :
       /\ i < j /\ j < k
       /\ Body[i].total > 0 /\ Body[j].total = 0 /\ Body[k].total > 0
       /\ Body[j].success = 0 /\ Body[j].error = 0

\* C16 (as claimed): when the fetched rows are the rows of the instance, all
\* of them are count-eligible under an active workflow, mode or date-range
\* filter and statusFilter is null, the recomputed stats are the stats the
\* server responded with.
C16_ClientStatsEqualServerStats ==
  ( /\ executions # Nil /\ stats # Nil
    /\ hasCountFilters(filters) /\ filters.statusFilter = Nil
    /\ Range(Rows) = WhereInstance(store, instanceQueryParam)
    /\ Cardinality(CountEligible) = Len(Rows) )
  => shownStats = stats

\* What does agree between the two paths under the condition of C16: the six
\* counts and the success rate.
ClientCountsEqualServerCounts ==
  ( /\ executions # Nil /\ stats # Nil
    /\ hasCountFilters(filters) /\ filters.statusFilter = Nil
    /\ Range(Rows) = WhereInstance(store, instanceQueryParam)
    /\ Cardinality(CountEligible) = Len(Rows) )
  => /\ CountsOf(shownStats) = CountsOf(stats)
     /\ shownStats[1].successRate = stats[1].successRate

\* C17 (as claimed), the server's series: when every row of the window has a
\* started_at, each bucket counts the rows whose started_at falls on its day.
C17_ServerBucketIsDayOfStartedAt ==
  IsResponseOf("/api/executions/daily") =>
    LET data == DailyQuery(store, AskedInstance, AskedDays)
        dailyMap == DailyMap(store, AskedInstance, AskedDays)
    IN  (\A n \in 1..Len(data) : data[n].started_at # Nil) =>
          \A i \in 1..Len(Body) :
            Body[i].total
              = Cardinality({n \in 1..Len(data) :
                               DayOf(data[n].started_at[1]) = dailyMap[i].date})

\* n is x / d rounded to the nearest integer, a half rounded up.
NearestHalfUp(n, x, d) == 2 * d * n - d <= 2 * x /\ 2 * x < 2 * d * n + d

\* C18: for a non-null duration the grid cell and the detail sheet print the
\* same text: the milliseconds below 1000, the rounded seconds from 1000 to
\* 59999, the rounded minutes from 60000; so "0ms", "999ms", "1s", "60s",
\* "1m", "2m" for 0, 999, 1000, 59999, 60000, 125000.
C18_TableDurationFormat ==
  (formatted # Nil /\ formatted[1].ms # Nil) =>
    LET ms == formatted[1].ms[1]
        sheet == formatted[1].sheet
    IN  /\ formatted[1].cell = sheet
        /\ ms < 1000 => sheet = Text(ms, "ms")
        /\ (1000 <= ms /\ ms <= 59999) =>
             sheet.unit = "s" /\ NearestHalfUp(sheet.n, ms, 1000)
        /\ ms >= 60000 => sheet.unit = "m" /\ NearestHalfUp(sheet.n, ms, 60000)
        /\ ms = 0 => sheet = Text(0, "ms")
        /\ ms = 999 => sheet = Text(999, "ms")
        /\ ms = 1000 => sheet = Text(1, "s")
        /\ ms = 59999 => sheet = Text(60, "s")
        /\ ms = 60000 => sheet = Text(1, "m")
        /\ ms = 125000 => sheet = Text(2, "m")

\* C18 witness: 59999 ms has been rendered as "60s" in both places.
C18_Witness ==
  /\ formatted # Nil
  /\ formatted[1].ms = Some(59999)
  /\ formatted[1].sheet = Text(60, "s")
  /\ formatted[1].cell = Text(60, "s")

\* C19 (as claimed): the Avg Duration card prints a duration as the table
\* does: milliseconds below 1000, seconds up to 59999, minutes from 60000.
C19_CardFormatsLikeTable ==
  (formatted # Nil /\ formatted[1].ms # Nil) =>
    formatted[1].card = formatted[1].sheet

\* The rows of the asked instance of workflow `name`.
RowsOfWorkflow(name) ==
  {r \in WhereInstance(store, AskedInstance) : r.workflow_name = name}

RECURSIVE SumOfDurations(_)
SumOfDurations(rows) ==
  IF rows = {} THEN 0
  ELSE LET r == CHOOSE q \in rows : TRUE
       IN  r.duration_ms[1] + SumOfDurations(rows \ {r})

\* C20: the workflows response has one entry for each workflow_name among the
\* rows of the asked instance and no other; an entry holds the number of the
\* workflow's rows, of those with status success and with status error, and
\* the mean of its non-null durations rounded to the nearest integer (0
\* without any); the total_executions add up to the number of rows.
C20_WorkflowStats ==
  IsResponseOf("/api/executions/workflows") =>
    /\ \A i, j \in 1..Len(Body) :
         i # j => Body[i].workflow_name # Body[j].workflow_name
    /\ {Body[i].workflow_name : i \in 1..Len(Body)}
         = {r.workflow_name : r \in WhereInstance(store, AskedInstance)}
    /\ \A i \in 1..Len(Body) :
         LET rows == RowsOfWorkflow(Body[i].workflow_name)
             timed == {r \in rows : r.duration_ms # Nil}
         IN  /\ Body[i].total_executions = Cardinality(rows)
             /\ Body[i].total_executions > 0
             /\ Body[i].successful = Cardinality({r \in rows : r.status = "success"})
             /\ Body[i].failed = Cardinality({r \in rows : r.status = "error"})
             /\ timed = {} => Body[i].avg_duration_ms = 0
             /\ timed # {} =>
                  NearestHalfUp(Body[i].avg_duration_ms, SumOfDurations(timed),
                                Cardinality(timed))
    /\ Sum([i \in 1..Len(Body) |-> Body[i].total_executions])
         = Cardinality(WhereInstance(store, AskedInstance))

\* C20 witness: a response of two workflows; one has a row that is neither
\* success nor error, a row without a duration and a mean that is not an
\* integer.
C20_Witness ==
  /\ IsResponseOf("/api/executions/workflows")
  /\ Len(Body) = 2
  /\ \E i \in 1..Len(Body) :
       LET rows == RowsOfWorkflow(Body[i].workflow_name)
           timed == {r \in rows : r.duration_ms # Nil}
       IN  /\ Body[i].successful + Body[i].failed < Body[i].total_executions
           /\ Cardinality(timed) = 2
           /\ SumOfDurations(timed) % 2 = 1
           /\ Body[i].avg_duration_ms * 2 = SumOfDurations(timed) + 1

\* The place of a string in ascending code-unit order.
CodeUnitRank(x) == CHOOSE i \in 1..Len(StringOrder) : StringOrder[i] = x

\* The instance identifiers in the store: n8n_instance neither null nor empty.
StoredInstances ==
  {r.n8n_instance[1] : r \in {q \in store : q.n8n_instance # Nil /\ q.n8n_instance[1] # ""}}

\* C21: the instances response is an array in strictly ascending order (so
\* sorted and without duplicates), without an empty value, whose elements are
\* exactly the distinct identifiers of the store's rows (n8n_instance neither
\* null nor empty).
C21_InstancesSortedDistinct ==
  IsResponseOf("/api/instances") =>
    /\ \A i, j \in 1..Len(Body) :
         i < j => CodeUnitRank(Body[i]) < CodeUnitRank(Body[j])
    /\ \A i \in 1..Len(Body) : Body[i] # ""
    /\ {Body[i] : i \in 1..Len(Body)} = StoredInstances

\* C21 witness: two instances listed, from a store that also has a row
\* without an identifier.
C21_Witness ==
  /\ IsResponseOf("/api/instances")
  /\ Len(Body) = 2
  /\ \E r \in store : ~TruthyStr(r.n8n_instance)

\* The raw value is one for which parseInt gives NaN: absent, or a text that
\* does not start with digits.
NotNumeric(raw) == raw = Nil \/ raw[1].lead = Nil

\* C22: a request for executions whose limit is absent or not numeric, and a
\* request for the daily series whose days is absent or not numeric, is
\* answered (the storage working) with status 200 and what the handler gives
\* for the default, 100 rows and 14 days in the source.
C22_LenientParsing ==
  /\ (IsResponseOf("/api/executions") /\ NotNumeric(response[1].query.limit)) =>
       response[1].replies
         = <<Reply(200, ExecutionsHandler(store, AskedInstance, DefaultLimit))>>
  /\ (IsResponseOf("/api/executions/daily") /\ NotNumeric(response[1].query.days)) =>
       response[1].replies
         = <<Reply(200, DailyHandler(store, AskedInstance, DefaultDays))>>

\* C22 witness: a limit text that is not numeric, answered with the default
\* number of rows out of more.
C22_Witness ==
  /\ IsResponseOf("/api/executions")
  /\ response[1].query.limit = Some(QueryText(Nil, TRUE))
  /\ Len(Body) = DefaultLimit
  /\ Cardinality(WhereInstance(store, AskedInstance)) > DefaultLimit

ErrorMessages ==
  {NotInitialized, QueryErrorMessage}
    \cup {FailedToFetch(e) : e \in {"/api/instances", "/api/executions",
                                    "/api/executions/stats", "/api/executions/daily",
                                    "/api/executions/workflows"}}

\* C23: a request during which the storage query returns an error, the
\* client is not configured or the query throws is answered exactly once,
\* with status 500 and a body that is an object of the one field `error`, a
\* string.
C23_FailureIsOne500 ==
  (response # Nil /\ response[1].storage # "ok") =>
    /\ Len(response[1].replies) = 1
    /\ response[1].replies[1].status = 500
    /\ DOMAIN response[1].replies[1].body = {"error"}
    /\ response[1].replies[1].body.error \in ErrorMessages

\* C23 witness: the stats query of a non-empty store returns an error.
C23_Witness ==
  /\ response # Nil
  /\ response[1].endpoint = "/api/executions/stats"
  /\ response[1].storage = "error"
  /\ store # {}

\* The query's last fetch to settle gave data.
Succeeded(q) == q.data # Nil /\ q.error = Nil

\* C24: each of the three widgets shows its error card exactly when its own
\* query holds an error, whatever the other two queries did; a widget whose
\* own query succeeded shows data: the chart a series, the distribution a
\* stats object, the table the filtered rows of its own query; the chart and
\* the distribution show their own query's data while the executions query
\* has none.
C24_WidgetsFailIndependently ==
  /\ ExecutionChart.view = "error" <=> Current("/api/executions/daily").error # Nil
  /\ StatusDistributionChart.view = "error" <=> Current("/api/executions/stats").error # Nil
  /\ ExecutionTable.view = "error" <=> Current("/api/executions").error # Nil
  /\ Succeeded(Current("/api/executions/daily")) => ExecutionChart.view = "data"
  /\ Succeeded(Current("/api/executions/stats")) =>
       StatusDistributionChart.view = "data" /\ StatusDistributionChart.data # Nil
  /\ Succeeded(Current("/api/executions")) =>
       /\ ExecutionTable.view = "data"
       /\ ExecutionTable.data
            = filteredData(Current("/api/executions").data[1], filters)
  /\ (Succeeded(Current("/api/executions/stats"))
        /\ Current("/api/executions").data = Nil) =>
       StatusDistributionChart.data = Current("/api/executions/stats").data
  /\ (Succeeded(Current("/api/executions/daily"))
        /\ Current("/api/executions").data = Nil) =>
       ExecutionChart.data = Current("/api/executions/daily").data[1]

\* C24 witness: the stats query failed, the other two succeeded; the
\* distribution shows the error card, the chart and the table show data.
C24_Witness ==
  /\ Current("/api/executions/stats").error # Nil
  /\ Succeeded(Current("/api/executions/daily"))
  /\ Succeeded(Current("/api/executions"))
  /\ StatusDistributionChart.view = "error"
  /\ ExecutionChart.view = "data"
  /\ ExecutionTable.view = "data"

\* C25: the data of each query the page observes is the handler's answer for
\* the instance now selected, whatever instances were selected before and in
\* whatever order the fetches settled.
C25_DataOfSelectedInstance ==
  \A endpoint \in Endpoints :
    Current(endpoint).data # Nil =>
      Current(endpoint).data = Some(queryFn(endpoint, instanceQueryParam))

\* C25 witness: the instance i1 is selected and its executions are shown
\* while the fetch of the executions of all instances is still in flight and
\* the stats of all instances, which differ, are in the cache.
C25_Witness ==
  /\ filters.instanceFilter = Some("i1")
  /\ Current("/api/executions").data # Nil
  /\ Entry(queries, <<"/api/executions", Nil>>).fetching # Nil
  /\ Entry(queries, <<"/api/executions/stats", Nil>>).data # Nil
  /\ Entry(queries, <<"/api/executions/stats", Nil>>).data
       # Some(queryFn("/api/executions/stats", Some("i1")))

\* C26: there is at most one interval timer; there is one exactly while
\* Dashboard is mounted and the option is not "manual"; its period is that of
\* the option, 10 s, 1 min or 5 min; and a step that sets a timer leaves no
\* timer of before.
C26_OneTimerOfChosenPeriod ==
  /\ [](/\ Cardinality(timers.active) <= 1
        /\ timers.active # {} <=> (mounted /\ refreshInterval # "manual")
        /\ \A t \in timers.active :
             /\ refreshInterval = "10s" => t.ms = 10000
             /\ refreshInterval = "1m" => t.ms = 60000
             /\ refreshInterval = "5m" => t.ms = 300000)
  /\ [][timers'.active # timers.active => timers'.active \cap timers.active = {}]_vars

\* C26 witness: the timer of the 5 min option, set after another was
\* cleared.
C26_Witness ==
  /\ mounted
  /\ refreshInterval = "5m"
  /\ \E t \in timers.active : t.id > 1 /\ t.ms = 300000

\* C27: a step that changes the filters and leaves instanceFilter as it was
\* changes neither the query cache (no fetch starts, nothing is invalidated)
\* nor the timers (none is cleared, none is set).
C27_OtherFiltersFetchNothing ==
  [][(filters' # filters /\ filters'.instanceFilter = filters.instanceFilter)
       => (queries' = queries /\ timers' = timers)]_vars

\* C27 witness: the workflow, mode, status and date filters are all set
\* while a timer runs and nothing is fetching.
C27_Witness ==
  /\ filters.workflowFilter # Nil
  /\ filters.modeFilter # Nil
  /\ filters.statusFilter # Nil
  /\ filters.dateRange # Nil
  /\ timers.active # {}
  /\ ~isFetching

\* C28: once rows are fetched, the rows of the table are the rows the
\* average duration of the recomputed stats is taken over (workflow, mode,
\* date range and status applied), in the same order.
C28_TableRowsAreDurationRows ==
  executions # Nil =>
    filteredData(Rows, filters) = filteredForDuration(Rows, filters)

\* C28 witness: a status filter and a workflow filter are set, and the table
\* shows some of the fetched rows, fewer than the rows counted.
C28_Witness ==
  /\ executions # Nil
  /\ filters.statusFilter # Nil /\ filters.workflowFilter # Nil
  /\ Len(filteredData(Rows, filters)) > 0
  /\ Len(filteredData(Rows, filters)) < Len(filteredForCounts(Rows, filters))

\* C29: a click on the status card of s changes nothing but statusFilter,
\* which becomes null when it was s and s otherwise (one status or none is
\* selected after it); a second click on the same card, the first made with
\* no status selected, gives back the filters of before the first.
C29_StatusCardToggles ==
  [][\A s \in {"success", "error"} :
       handleStatusClick(s) =>
         /\ filters' = [filters EXCEPT
                          !.statusFilter = IF filters.statusFilter = Some(s)
                                             THEN Nil ELSE Some(s)]
         /\ filters'.statusFilter \in {Nil, Some(s)}
         /\ filters.statusFilter = Nil => StatusClick(filters', s) = filters
         /\ UNCHANGED <<store, executions, stats, dailyStats>>]_vars

\* C29 witness: the status "error" is selected, with a workflow selected
\* too, while the status "success" is among the rows fetched (a click on the
\* Failed card, or on it after the Successful card).
C29_Witness ==
  /\ filters.statusFilter = Some("error")
  /\ filters.workflowFilter # Nil
  /\ executions # Nil
  /\ \E i \in 1..Len(Rows) : Rows[i].status = "success"

====
